---- MODULE Spec2Model ----
(***************************************************************************)
(* A model of the Sanctuary.SoeProtocol Rust fragment:                     *)
(*   util/data_utils.rs        sequence extension, variable-length prefix  *)
(*   util/binary_primitives.rs big-endian integer helpers                  *)
(*   services/rc4.rs           the RC4 keystream cipher                    *)
(*                                                                         *)
(* TLC's integers are 32 bits wide, so a u64 is kept as four 16-bit limbs  *)
(* and a u32 as two, most significant limb first; the arithmetic on them   *)
(* carries, borrows and wraps as the machine's does.                       *)
(***************************************************************************)
EXTENDS Integers, Sequences, FiniteSets, TLC

VARIABLES
    \* get_true_incoming_sequence: its arguments, the build profile, its result
    packet_sequence, current_sequence, max_queued_reliable_data_packets,
    overflow_checks, seq_result,
    \* Rc4: the key of the session, the sending instance, the receiving
    \* instance, a clone taken right after Rc4::new, and what has gone through
    \* them: the bytes given to the sender, the bytes it produced, the bytes the
    \* receiver got back, and the number of calls on the sender
    key, rc4, peer, seeded, fed, wire, recovered, calls,
    \* variable-length prefix and u16 helpers: the buffer, the cursor, the value
    buffer, offset, length, vl_phase, vl_start, vl_written, vl_value,
    u16_buffer, u16_value, u16_read, u16_phase

vars == <<packet_sequence, current_sequence, max_queued_reliable_data_packets,
          overflow_checks, seq_result,
          key, rc4, peer, seeded, fed, wire, recovered, calls,
          buffer, offset, length, vl_phase, vl_start, vl_written, vl_value,
          u16_buffer, u16_value, u16_read, u16_phase>>

seq_vars == <<packet_sequence, current_sequence,
              max_queued_reliable_data_packets, overflow_checks, seq_result>>
rc4_vars == <<key, rc4, peer, seeded, fed, wire, recovered, calls>>
vl_vars  == <<buffer, offset, length, vl_phase, vl_start, vl_written, vl_value>>
u16_vars == <<u16_buffer, u16_value, u16_read, u16_phase>>

(***************************************************************************)
(* Machine arithmetic                                                      *)
(***************************************************************************)

\* One 16-bit limb: 2^16.
LimbBase == 65536

\* u8::MAX
U8Max == 255

RECURSIVE BitOr(_, _)
\* a | b on naturals
BitOr(a, b) ==
    IF a = 0 THEN b
    ELSE IF b = 0 THEN a
    ELSE (IF a % 2 = 1 \/ b % 2 = 1 THEN 1 ELSE 0) + 2 * BitOr(a \div 2, b \div 2)

RECURSIVE BitAnd(_, _)
\* a & b on naturals
BitAnd(a, b) ==
    IF a = 0 \/ b = 0 THEN 0
    ELSE (IF a % 2 = 1 /\ b % 2 = 1 THEN 1 ELSE 0) + 2 * BitAnd(a \div 2, b \div 2)

RECURSIVE BitXor(_, _)
\* a ^ b on naturals
BitXor(a, b) ==
    IF a = 0 THEN b
    ELSE IF b = 0 THEN a
    ELSE (IF a % 2 = b % 2 THEN 0 ELSE 1) + 2 * BitXor(a \div 2, b \div 2)

\* A u64 as <<l3, l2, l1, l0>>, value l3*2^48 + l2*2^32 + l1*2^16 + l0.
U64Or(a, b)  == [k \in 1..4 |-> BitOr(a[k], b[k])]
U64And(a, b) == [k \in 1..4 |-> BitAnd(a[k], b[k])]

\* a + b in a u64 register: the wrapped sum and whether it carried out.
U64Add(a, b) ==
    LET s4 == a[4] + b[4]
        s3 == a[3] + b[3] + (s4 \div LimbBase)
        s2 == a[2] + b[2] + (s3 \div LimbBase)
        s1 == a[1] + b[1] + (s2 \div LimbBase)
    IN  [value   |-> <<s1 % LimbBase, s2 % LimbBase, s3 % LimbBase, s4 % LimbBase>>,
         wrapped |-> s1 >= LimbBase]

\* a - b in a u64 register: the wrapped difference and whether it borrowed.
U64Sub(a, b) ==
    LET d4 == a[4] - b[4]
        d3 == a[3] - b[3] - (IF d4 < 0 THEN 1 ELSE 0)
        d2 == a[2] - b[2] - (IF d3 < 0 THEN 1 ELSE 0)
        d1 == a[1] - b[1] - (IF d2 < 0 THEN 1 ELSE 0)
    IN  [value   |-> <<d1 % LimbBase, d2 % LimbBase, d3 % LimbBase, d4 % LimbBase>>,
         wrapped |-> d1 < 0]

\* a < b on u64
U64Lt(a, b) ==
    \E k \in 1..4 : a[k] < b[k] /\ \A h \in 1..(k - 1) : a[h] = b[h]

\* u16 as u64 (zero extension)
U16AsU64(p) == <<0, 0, 0, p>>

\* i16 as u64 (sign extension)
I16AsU64(w) ==
    IF w >= 0 THEN <<0, 0, 0, w>>
    ELSE <<LimbBase - 1, LimbBase - 1, LimbBase - 1, LimbBase + w>>

(***************************************************************************)
(* util/data_utils.rs: get_true_incoming_sequence                          *)
(***************************************************************************)

\* 0xFFFFFFFFFFFF0000
BlockMask == <<LimbBase - 1, LimbBase - 1, LimbBase - 1, 0>>

\* A slip: the block added as 0xFFFF, without the + 1.
BlockAdd_WithoutOne == <<0, 0, 0, LimbBase - 1>>

\* 0xFFFF + 1 as the function adds it
BlockAdd == <<0, 0, 1, 0>>

\* 0xFFFF + 1 as the function subtracts it
BlockSub == <<0, 0, 1, 0>>

\* The function's outcomes: a value, or the abort of an overflow-checked build.
\* wrapped records whether some u64 operation of the call wrapped.
Returned(v, w) == [status |-> "returned", value |-> v, wrapped |-> w]
Panicked == [status |-> "panicked", value |-> <<0, 0, 0, 0>>, wrapped |-> TRUE]
NotCalled == [status |-> "none", value |-> <<0, 0, 0, 0>>, wrapped |-> FALSE]

\* let mut sequence = packet_sequence as u64 | (current_sequence & 0xFFFFFFFFFFFF0000)
Candidate(p, c) == U64Or(U16AsU64(p), U64And(c, BlockMask))

\* A slip: <= for <, so that the window's lowest sequence falls below it.
BelowWindow_Inclusive(sequence, lower) == ~U64Lt(lower, sequence)

\* sequence < current_sequence - max_queued_reliable_data_packets as u64
BelowWindow(sequence, lower) == U64Lt(sequence, lower)

\* sequence > current_sequence + max_queued_reliable_data_packets as u64
AboveWindow(sequence, upper) == U64Lt(upper, sequence)

\* An overflowing u64 operation aborts when the build checks overflow
\* (checks = TRUE, the debug profile) and wraps otherwise (release).
get_true_incoming_sequence(p, c, W, checks) ==
    LET sequence == Candidate(p, c)
        w        == I16AsU64(W)
        lower    == U64Sub(c, w)
    IN  IF lower.wrapped /\ checks THEN Panicked
        ELSE IF BelowWindow(sequence, lower.value)
        THEN LET inc == U64Add(sequence, BlockAdd)
             IN  IF inc.wrapped /\ checks THEN Panicked
                 ELSE Returned(inc.value, lower.wrapped \/ inc.wrapped)
        ELSE LET upper == U64Add(c, w)
             IN  IF upper.wrapped /\ checks THEN Panicked
                 ELSE IF AboveWindow(sequence, upper.value)
                 THEN LET dec == U64Sub(sequence, BlockSub)
                      IN  IF dec.wrapped /\ checks THEN Panicked
                          ELSE Returned(dec.value,
                                        lower.wrapped \/ upper.wrapped \/ dec.wrapped)
                 ELSE Returned(sequence, lower.wrapped \/ upper.wrapped)

(***************************************************************************)
(* services/rc4.rs: Rc4                                                    *)
(***************************************************************************)

\* const STATE_LENGTH: usize = 256
STATE_LENGTH == 256

\* A slip: saturating_add for wrapping_add.
wrapping_add_Saturating(a, b) == IF a + b > U8Max THEN U8Max ELSE a + b

\* u8::wrapping_add
wrapping_add(a, b) == (a + b) % (U8Max + 1)

\* A slip: state[i] = state[j] without the assignment back.
swap_Overwrite(state, i, j) == [state EXCEPT ![i] = state[j]]

\* [u8; 256]::swap
swap(state, i, j) == [state EXCEPT ![i] = state[j], ![j] = state[i]]

\* for i in 0..STATE_LENGTH { rc4.state[i] = i as u8; }
IdentityState == [i \in 0..(STATE_LENGTH - 1) |-> i % (U8Max + 1)]

\* swap_index_2 = (swap_index_2 + state[i] + key[swap_index_1]) % STATE_LENGTH
KeyStep(swap_index_2, s_i, k) == (swap_index_2 + s_i + k) % STATE_LENGTH

\* One iteration of the second loop of Rc4::new, on the loop's variables.
KeyScheduleStep(v, i, k) ==
    LET j == KeyStep(v.swap_index_2, v.state[i], k[v.swap_index_1 + 1])
    IN  [state        |-> swap(v.state, i, j),
         swap_index_1 |-> (v.swap_index_1 + 1) % Len(k),
         swap_index_2 |-> j]

RECURSIVE KeySchedule(_, _, _, _)
\* Iterations lo..hi-1 of that loop, in order. The range is halved, and the
\* first half's result is looked at before the second half starts, only so
\* that the 256 iterations are evaluated one after the other and not nested.
KeySchedule(v, lo, hi, k) ==
    IF hi <= lo THEN v
    ELSE IF hi = lo + 1 THEN KeyScheduleStep(v, lo, k)
    ELSE LET mid  == (lo + hi) \div 2
             half == KeySchedule(v, lo, mid, k)
         IN  IF half.swap_index_2 >= 0
             THEN KeySchedule(half, mid, hi, k)
             ELSE half

\* Rc4::new(key); the assert on the key's length is the caller's obligation.
Rc4New(k) ==
    [index_1 |-> 0, index_2 |-> 0,
     state   |-> KeySchedule([state |-> IdentityState, swap_index_1 |-> 0,
                              swap_index_2 |-> 0], 0, STATE_LENGTH, k).state]

\* Rc4::s_1 and Rc4::s_2
s_1(r) == r.state[r.index_1]
s_2(r) == r.state[r.index_2]

\* Rc4::next: the instance after the call and the byte it returns.
next(r) ==
    LET a == [r EXCEPT !.index_1 = wrapping_add(r.index_1, 1)]
        b == [a EXCEPT !.index_2 = wrapping_add(a.index_2, s_1(a))]
        c == [b EXCEPT !.state = swap(b.state, b.index_1, b.index_2)]
    IN  [rc4 |-> c, byte |-> c.state[wrapping_add(s_1(c), s_2(c))]]

\* A slip: | for ^.
XorByte_Or(b, k) == BitOr(b, k)

\* *i = *i ^ self.next()
XorByte(b, k) == BitXor(b, k)

RECURSIVE transform_from(_, _, _)
\* The loop of Rc4::transform over buf[n..], with the bytes already done.
transform_from(r, buf, done) ==
    IF Len(done) = Len(buf) THEN [rc4 |-> r, buffer |-> done]
    ELSE LET n == next(r)
         IN  transform_from(n.rc4, buf,
                            Append(done, XorByte(buf[Len(done) + 1], n.byte)))

\* A slip: every call restarts the generator's two indexes.
transform_Restart(r, buf) ==
    transform_from([r EXCEPT !.index_1 = 0, !.index_2 = 0], buf, <<>>)

\* Rc4::transform: the instance after the call and the buffer's new contents.
transform(r, buf) == transform_from(r, buf, <<>>)

(***************************************************************************)
(* util/binary_primitives.rs                                               *)
(***************************************************************************)

\* A byte buffer is a sequence; the source's buffer[i] is buf[i + 1] here.
At(buf, i) == buf[i + 1]
InBounds(buf, i) == 0 <= i /\ i < Len(buf)

\* value >> 8 on a u16
HighByte(v) == v \div (U8Max + 1)

\* value as u8 (truncation)
AsU8(v) == v % (U8Max + 1)

\* read::read_u16_be: (buffer[0] as u16) << 8 | buffer[1] as u16
read_u16_be(buf) == BitOr(At(buf, 0) * (U8Max + 1), At(buf, 1))

\* write::write_u16_be: buffer[0] = (value >> 8) as u8, and nothing else
write_u16_be(buf, v) == [buf EXCEPT ![1] = AsU8(HighByte(v))]

(***************************************************************************)
(* util/data_utils.rs: the variable-length prefix                          *)
(***************************************************************************)

\* A u32 as <<hi, lo>>, value hi*2^16 + lo.
U32Or(a, b) == <<BitOr(a[1], b[1]), BitOr(a[2], b[2])>>
U32Lt(a, b) == a[1] < b[1] \/ (a[1] = b[1] /\ a[2] < b[2])

\* (b as u32) << 24, << 16, << 8, and b as u32
Shl24(b) == <<b * (U8Max + 1), 0>>
Shl16(b) == <<b, 0>>
Shl8(b)  == <<0, b * (U8Max + 1)>>
Shl0(b)  == <<0, b>>

\* u32::from_be_bytes of the four bytes at buf[i..i + 4], the first part of
\* buffer[(*offset + 3)..].split_at(size_of::<u32>())
from_be_bytes(buf, i) ==
    <<At(buf, i) * (U8Max + 1) + At(buf, i + 1),
      At(buf, i + 2) * (U8Max + 1) + At(buf, i + 3)>>

\* size_of::<u8>(), size_of::<u16>(), size_of::<u32>()
SizeOfU8 == 1
SizeOfU16 == 2
SizeOfU32 == 4

\* The literals 0xFF and 0xFFFF of get_variable_length_size, as u32
ShortLimit == <<0, U8Max>>
MediumLimit == <<0, LimbBase - 1>>

\* get_variable_length_size
get_variable_length_size(len) ==
    IF U32Lt(len, ShortLimit) THEN SizeOfU8
    ELSE IF U32Lt(len, MediumLimit) THEN SizeOfU16 + 1
    ELSE SizeOfU32 + 3

\* The first branch of read_variable_length: buffer[*offset] < u8::MAX
IsShortForm(b0) == b0 < U8Max

\* A slip: the long form taken on the second byte alone.
IsLongForm_SecondByteOnly(b1, b2) == b1 = U8Max

\* The second: buffer[*offset + 1] == u8::MAX && buffer[*offset + 2] == u8::MAX
IsLongForm(b1, b2) == b1 = U8Max /\ b2 = U8Max

\* The outcomes of read_variable_length: the value and the cursor after it, or
\* the abort of an index past the buffer's end.
ReadOk(v, o) == [status |-> "returned", value |-> v, offset |-> o]
ReadPanic(o) == [status |-> "panicked", value |-> <<0, 0>>, offset |-> o]

\* read_variable_length(buffer, offset)
read_variable_length(buf, o) ==
    IF ~InBounds(buf, o) THEN ReadPanic(o)
    ELSE IF IsShortForm(At(buf, o)) THEN ReadOk(Shl0(At(buf, o)), o + 1)
    ELSE IF ~InBounds(buf, o + 1) THEN ReadPanic(o)
    ELSE IF At(buf, o + 1) = U8Max /\ ~InBounds(buf, o + 2) THEN ReadPanic(o)
    ELSE IF IsLongForm(At(buf, o + 1), At(buf, o + 2))
    THEN IF ~InBounds(buf, o + 3 + SizeOfU32 - 1) THEN ReadPanic(o)
         ELSE ReadOk(U32Or(U32Or(U32Or(U32Or(from_be_bytes(buf, o + 3),
                                             Shl24(At(buf, o + 3))),
                                       Shl16(At(buf, o + 4))),
                                 Shl8(At(buf, o + 5))),
                           Shl0(At(buf, o + 6))),
                     o + 7)
    ELSE IF ~InBounds(buf, o + 2) THEN ReadPanic(o)
    ELSE ReadOk(U32Or(Shl8(At(buf, o + 1)), Shl0(At(buf, o + 2))), o + 3)

\* write_variable_length(buffer, length, offset): the body is empty, so the
\* buffer and the cursor come back as they went in.
write_variable_length(buf, len, o) == [buffer |-> buf, offset |-> o]

(***************************************************************************)
(* The components share no state: each is checked under a specification of *)
(* its own, in which the other components' variables rest at these values. *)
(***************************************************************************)

SeqIdle ==
    /\ packet_sequence = 0
    /\ current_sequence = <<0, 0, 0, 0>>
    /\ max_queued_reliable_data_packets = 0
    /\ overflow_checks = FALSE
    /\ seq_result = NotCalled

Rc4Idle ==
    /\ key = <<>>
    /\ rc4 = [index_1 |-> 0, index_2 |-> 0, state |-> <<>>]
    /\ peer = [index_1 |-> 0, index_2 |-> 0, state |-> <<>>]
    /\ seeded = [index_1 |-> 0, index_2 |-> 0, state |-> <<>>]
    /\ fed = <<>>
    /\ wire = <<>>
    /\ recovered = <<>>
    /\ calls = 0

VlIdle ==
    /\ buffer = <<>>
    /\ offset = 0
    /\ length = <<0, 0>>
    /\ vl_phase = "idle"
    /\ vl_start = 0
    /\ vl_written = 0
    /\ vl_value = ReadPanic(0)

U16Idle ==
    /\ u16_buffer = <<>>
    /\ u16_value = 0
    /\ u16_read = 0
    /\ u16_phase = "idle"

(***************************************************************************)
(* SpecSeq: one call of get_true_incoming_sequence                         *)
(***************************************************************************)

\* How far around each boundary the inputs are drawn.
SeqSpan == 4

\* The values of a 16-bit limb within k of x.
Around(x, k) == {v \in (x - k)..(x + k) : 0 <= v /\ v < LimbBase}

\* Window bounds W, 0 <= W < 2^15: none, one, the spec's example, the largest.
Windows == {0, 1, 256, 32767}

\* The upper 48 bits of current_sequence: the first blocks, a carry and a
\* borrow across limbs, and the last block of the u64 range.
HighLimbs ==
    {<<0, 0, 0>>, <<0, 0, 1>>, <<0, 0, 2>>, <<0, 0, LimbBase - 1>>, <<0, 1, 0>>,
     <<LimbBase - 1, LimbBase - 1, LimbBase - 1>>}

\* The low 16 bits of current_sequence: the block's ends and middle, and the
\* places where the window meets them.
LowLimbs(W) ==
    Around(0, SeqSpan) \cup Around(LimbBase - 1, SeqSpan) \cup Around(W, 1)
        \cup Around(2 * W, 1) \cup Around(LimbBase - 1 - W, 1)
        \cup Around(LimbBase \div 2, 1)

\* Distances of the packet's wire sequence from current_sequence's low bits.
Distances(W) ==
    LET pos == Around(0, SeqSpan) \cup Around(W, 1) \cup Around(LimbBase \div 2, 1)
                   \cup Around(LimbBase - 1 - W, 1) \cup Around(LimbBase - 1, SeqSpan)
    IN  pos \cup {0 - d : d \in pos}

InitSeq ==
    /\ max_queued_reliable_data_packets \in Windows
    /\ \E h \in HighLimbs, l \in LowLimbs(max_queued_reliable_data_packets) :
           current_sequence = <<h[1], h[2], h[3], l>>
    /\ \E d \in Distances(max_queued_reliable_data_packets) :
           packet_sequence = (current_sequence[4] + d) % LimbBase
    /\ overflow_checks \in BOOLEAN
    /\ seq_result = NotCalled
    /\ Rc4Idle /\ VlIdle /\ U16Idle

\* A reliable-data packet arrives and its wire sequence is extended.
ReceiveSequence ==
    /\ seq_result.status = "none"
    /\ seq_result' = get_true_incoming_sequence(packet_sequence, current_sequence,
                         max_queued_reliable_data_packets, overflow_checks)
    /\ UNCHANGED <<packet_sequence, current_sequence,
                   max_queued_reliable_data_packets, overflow_checks>>
    /\ UNCHANGED <<rc4_vars, vl_vars, u16_vars>>

NextSeq == ReceiveSequence

SpecSeq == InitSeq /\ [][NextSeq]_vars

\* |a - b| and a <= b on u64 values
U64Dist(a, b) == IF U64Lt(a, b) THEN U64Sub(b, a).value ELSE U64Sub(a, b).value
U64Le(a, b) == ~U64Lt(b, a)

\* W as a u64, and the call's s, c
WindowU64 == <<0, 0, 0, max_queued_reliable_data_packets>>
SeqReturned == seq_result.status = "returned"

C2_SaturatingLowerBound ==
    LET candidate == <<current_sequence[1], current_sequence[2],
                       current_sequence[3], packet_sequence>>
    IN  (/\ seq_result.status # "none"
         /\ U64Lt(current_sequence, WindowU64)
         /\ U64Le(candidate, U64Add(current_sequence, WindowU64).value))
            => (SeqReturned /\ seq_result.value = candidate)

\* The logical sequences congruent to the wire sequence in current_sequence's
\* block and the blocks next to it.
TrueSequences ==
    LET here == <<current_sequence[1], current_sequence[2],
                  current_sequence[3], packet_sequence>>
        up   == U64Add(here, <<0, 0, 1, 0>>)
        down == U64Sub(here, <<0, 0, 1, 0>>)
    IN  {here} \cup (IF up.wrapped THEN {} ELSE {up.value})
               \cup (IF down.wrapped THEN {} ELSE {down.value})

\* The window [c - W, c + W] lies within the u64 range.
WindowInRange ==
    /\ U64Le(WindowU64, current_sequence)
    /\ ~U64Add(current_sequence, WindowU64).wrapped

\* C9: with c >= W and c + W < 2^64, every logical sequence t within W of c
\* is returned exactly when its low 16 bits arrive as the wire sequence.
C9_InWindowExact ==
    (seq_result.status # "none" /\ WindowInRange) =>
        \A t \in TrueSequences :
            U64Le(U64Dist(t, current_sequence), WindowU64)
                => (SeqReturned /\ seq_result.value = t)

\* C9's case: the spec's forward example, (0x0001, 0x1FFFF, 256) -> 0x20001.
C9_Witness ==
    /\ packet_sequence = 1
    /\ current_sequence = <<0, 0, 1, LimbBase - 1>>
    /\ max_queued_reliable_data_packets = 256
    /\ SeqReturned
    /\ seq_result.value = <<0, 0, 2, 1>>

(***************************************************************************)
(* SpecRc4: a sender and a receiver seeded with the same key               *)
(***************************************************************************)

\* The calls made on the sending instance.
MaxCalls == 2

\* The keys of the tests ("Key", "Wiki", "Secret"), a key of one byte and a
\* key of STATE_LENGTH bytes.
KeyKey == <<75, 101, 121>>
KeyWiki == <<87, 105, 107, 105>>
KeySecret == <<83, 101, 99, 114, 101, 116>>
KeyOne == <<U8Max>>
KeyFull == [i \in 1..STATE_LENGTH |-> (5 * i + 1) % (U8Max + 1)]
Keys == {KeyKey, KeyWiki, KeySecret, KeyOne, KeyFull}

\* The plaintexts of the tests, the first also cut in two; an empty buffer
\* and one of the bytes 0xFF and 0x00.
TextPlaintext == <<80, 108, 97, 105, 110, 116, 101, 120, 116>>
TextPedia == <<112, 101, 100, 105, 97>>
TextAttack == <<65, 116, 116, 97, 99, 107, 32, 97, 116, 32, 100, 97, 119, 110>>
Buffers ==
    {<<>>, <<U8Max, 0>>,
     TextPlaintext, SubSeq(TextPlaintext, 1, 5), SubSeq(TextPlaintext, 6, 9),
     TextPedia, TextAttack}

InitRc4 ==
    /\ key \in Keys
    /\ rc4 = Rc4New(key)
    /\ peer = Rc4New(key)
    /\ seeded = Rc4New(key)
    /\ fed = <<>>
    /\ wire = <<>>
    /\ recovered = <<>>
    /\ calls = 0
    /\ SeqIdle /\ VlIdle /\ U16Idle

\* The sender transforms one buffer in place and puts it on the wire.
Transform(buf) ==
    /\ calls < MaxCalls
    /\ LET t == transform(rc4, buf)
       IN  /\ rc4' = t.rc4
           /\ wire' = wire \o t.buffer
    /\ fed' = fed \o buf
    /\ calls' = calls + 1
    /\ UNCHANGED <<key, peer, seeded, recovered>>
    /\ UNCHANGED <<seq_vars, vl_vars, u16_vars>>

\* The sender draws one keystream byte with next(): the byte a zero byte
\* would have been transformed to.
NextByte ==
    /\ calls < MaxCalls
    /\ LET n == next(rc4)
       IN  /\ rc4' = n.rc4
           /\ wire' = Append(wire, n.byte)
    /\ fed' = Append(fed, 0)
    /\ calls' = calls + 1
    /\ UNCHANGED <<key, peer, seeded, recovered>>
    /\ UNCHANGED <<seq_vars, vl_vars, u16_vars>>

\* The receiver transforms what has arrived since its last call, in order.
Receive ==
    /\ Len(recovered) < Len(wire)
    /\ LET t == transform(peer, SubSeq(wire, Len(recovered) + 1, Len(wire)))
       IN  /\ peer' = t.rc4
           /\ recovered' = recovered \o t.buffer
    /\ UNCHANGED <<key, rc4, seeded, fed, wire, calls>>
    /\ UNCHANGED <<seq_vars, vl_vars, u16_vars>>

NextRc4 ==
    \/ \E buf \in Buffers : Transform(buf)
    \/ NextByte
    \/ Receive

SpecRc4 == InitRc4 /\ [][NextRc4]_vars

\* S is a permutation of 0..255
IsPermutation(S) ==
    /\ DOMAIN S = 0..(STATE_LENGTH - 1)
    /\ {S[i] : i \in DOMAIN S} = 0..U8Max

\* C3: the state array of every instance is a permutation of 0..255, after
\* Rc4::new and after any calls of next and transform.
C3_StateIsPermutation ==
    /\ IsPermutation(rc4.state)
    /\ IsPermutation(peer.state)
    /\ IsPermutation(seeded.state)

\* C3's case: instances seeded with the longest key, after a next, a
\* transform and the receiver's transform.
C3_Witness ==
    /\ key = KeyFull
    /\ calls = 2
    /\ fed = <<0>> \o TextAttack
    /\ recovered = fed
    /\ rc4.state # seeded.state

\* C4: the bytes produced by the calls so far, and the instance they leave,
\* are those of one transform of the concatenated input on an identically
\* seeded instance.
C4_NoBlockBoundary ==
    transform(seeded, fed) = [rc4 |-> rc4, buffer |-> wire]

\* C4's case: "Plain" then "text" transformed in two calls.
C4_Witness ==
    /\ calls = 2
    /\ fed = TextPlaintext
    /\ Len(wire) = Len(TextPlaintext)
    /\ rc4.index_1 = Len(TextPlaintext)
    /\ \E n \in 1..(Len(fed) - 1) :
           transform(seeded, SubSeq(fed, 1, n)).rc4.index_1 = n

\* C5: what the receiver's instance, seeded with the same key, makes of the
\* sender's output is the sender's input.
C5_Involution ==
    recovered = SubSeq(fed, 1, Len(recovered))

\* C5's case: a whole message has gone through both instances and was
\* changed on the wire.
C5_Witness ==
    /\ fed = TextAttack
    /\ recovered = fed
    /\ wire # fed
    /\ calls = 1

\* The spec's key schedule (4.1), one iteration: j = (j + S[i] + key[i mod
\* len(key)]) mod 256, swap S[i] and S[j].
RefKsaStep(v, i, k) ==
    LET j == (v.j + v.S[i] + k[(i % Len(k)) + 1]) % 256
    IN  [S |-> [v.S EXCEPT ![i] = v.S[j], ![j] = v.S[i]], j |-> j]

RECURSIVE RefKsa(_, _, _, _)
\* Iterations lo..hi-1 of the spec's key schedule, in order.
RefKsa(v, lo, hi, k) ==
    IF hi <= lo THEN v
    ELSE IF hi = lo + 1 THEN RefKsaStep(v, lo, k)
    ELSE LET mid  == (lo + hi) \div 2
             half == RefKsa(v, lo, mid, k)
         IN  IF half.j >= 0 THEN RefKsa(half, mid, hi, k) ELSE half

\* The spec's new(key): S[k] = k, the key schedule, then i = j = 0.
RefNew(k) ==
    [i |-> 0, j |-> 0, S |-> RefKsa([S |-> [n \in 0..255 |-> n], j |-> 0], 0, 256, k).S]

RECURSIVE RefTransform(_, _, _)
\* The spec's next() for each byte of m[n..]: i = (i+1) mod 256, j = (j +
\* S[i]) mod 256, swap S[i] and S[j], keystream byte S[(S[i] + S[j]) mod 256];
\* the byte of m is XORed with it.
RefTransform(g, m, out) ==
    IF Len(out) = Len(m) THEN [gen |-> g, out |-> out]
    ELSE LET i  == (g.i + 1) % 256
             j  == (g.j + g.S[i]) % 256
             S2 == [g.S EXCEPT ![i] = g.S[j], ![j] = g.S[i]]
             ks == S2[(S2[i] + S2[j]) % 256]
         IN  RefTransform([i |-> i, j |-> j, S |-> S2], m,
                          Append(out, BitXor(m[Len(out) + 1], ks)))

\* The ciphertexts of the three tests.
CipherPlaintext == <<187, 243, 22, 232, 217, 64, 175, 10, 211>>
CipherPedia == <<16, 33, 191, 4, 32>>
CipherAttack == <<69, 160, 31, 100, 95, 195, 91, 56, 53, 82, 84, 75, 155, 245>>
TestVectors ==
    {[key |-> KeyKey, plain |-> TextPlaintext, cipher |-> CipherPlaintext],
     [key |-> KeyWiki, plain |-> TextPedia, cipher |-> CipherPedia],
     [key |-> KeySecret, plain |-> TextAttack, cipher |-> CipherAttack]}

\* a is the beginning of b
IsPrefix(a, b) == Len(a) <= Len(b) /\ SubSeq(b, 1, Len(a)) = a

\* C6: the bytes the sender produced are its input XOR the keystream of the
\* spec's KSA and PRGA under the same key, its instance is the generator
\* that keystream leaves (i = j = 0 after seeding), and the three tests'
\* keys and plaintexts give the three tests' ciphertexts.
C6_StandardKeystream ==
    /\ LET ref == RefTransform(RefNew(key), fed, <<>>)
       IN  /\ wire = ref.out
           /\ rc4 = [index_1 |-> ref.gen.i, index_2 |-> ref.gen.j, state |-> ref.gen.S]
    /\ seeded.index_1 = 0 /\ seeded.index_2 = 0
    /\ \A v \in TestVectors :
           (key = v.key /\ IsPrefix(v.plain, fed)) => IsPrefix(v.cipher, wire)

\* C6's case: "Attack at dawn" under "Secret", transformed in one call.
C6_Witness ==
    /\ key = KeySecret
    /\ calls = 1
    /\ fed = TextAttack
    /\ wire = CipherAttack

(***************************************************************************)
(* SpecVarLen: a variable-length prefix written locally and read back, or  *)
(* received from the peer and decoded                                      *)
(***************************************************************************)

\* How far around each boundary the lengths are drawn.
VlSpan == 2

\* The largest offset the prefix starts at.
MaxStart == 1

\* Lengths in [0, 2^32) around the encoding's boundaries 0xFF, 0xFF00, 0xFFFF
\* and 0x10000, with the spec's examples 10, 300 and 70000 = 0x00011170.
Lengths ==
    LET lows  == Around(0, VlSpan) \cup Around(U8Max, VlSpan)
                     \cup Around(LimbBase - 1 - U8Max, VlSpan)
                     \cup Around(LimbBase - 1, VlSpan) \cup {10, 300, 4464}
        highs == {0, 1, U8Max, U8Max + 1, LimbBase - 1 - U8Max, LimbBase - 1}
    IN  {<<h, l>> : h \in highs, l \in lows}

\* n in the form whose length is get_variable_length_size(n): one byte; 0xFF
\* and two bytes big-endian; 0xFF 0xFF 0xFF and four bytes big-endian.
EncodeCanonical(n) ==
    LET size == get_variable_length_size(n)
    IN  IF size = 1 THEN <<n[2]>>
        ELSE IF size = 3
        THEN <<U8Max, n[2] \div (U8Max + 1), n[2] % (U8Max + 1)>>
        ELSE <<U8Max, U8Max, U8Max,
               n[1] \div (U8Max + 1), n[1] % (U8Max + 1),
               n[2] \div (U8Max + 1), n[2] % (U8Max + 1)>>

\* k bytes b
Fill(k, b) == [i \in 1..k |-> b]

InitVarLen ==
    /\ length \in Lengths
    /\ vl_start \in 0..MaxStart
    /\ offset = vl_start
    /\ \E b \in {0, U8Max} :
           \/ /\ vl_phase = "blank"
              /\ buffer = Fill(vl_start + SizeOfU32 + 3, b)
           \/ /\ vl_phase = "received"
              /\ \E pad \in {0, 2} :
                     buffer = Fill(vl_start, b) \o EncodeCanonical(length) \o Fill(pad, b)
    /\ vl_written = 0
    /\ vl_value = ReadPanic(vl_start)
    /\ SeqIdle /\ Rc4Idle /\ U16Idle

\* write_variable_length(buffer, length, &mut offset) on a blank buffer.
WriteLength ==
    /\ vl_phase = "blank"
    /\ LET w == write_variable_length(buffer, length, offset)
       IN  /\ buffer' = w.buffer
           /\ offset' = w.offset
           /\ vl_written' = w.offset - offset
    /\ vl_phase' = "written"
    /\ UNCHANGED <<length, vl_start, vl_value>>
    /\ UNCHANGED <<seq_vars, rc4_vars, u16_vars>>

\* read_variable_length(buffer, &mut offset) from the prefix's first byte.
ReadLength ==
    /\ vl_phase \in {"received", "written"}
    /\ LET r == read_variable_length(buffer, vl_start)
       IN  /\ vl_value' = r
           /\ offset' = r.offset
    /\ vl_phase' = IF vl_phase = "received" THEN "decoded" ELSE "read_back"
    /\ UNCHANGED <<buffer, length, vl_start, vl_written>>
    /\ UNCHANGED <<seq_vars, rc4_vars, u16_vars>>

NextVarLen == WriteLength \/ ReadLength

SpecVarLen == InitVarLen /\ [][NextVarLen]_vars

\* C7 as stated: after write_variable_length(buffer, n, offset) and
\* read_variable_length from the same starting offset, the value read is n,
\* and the bytes written and the bytes read both number
\* get_variable_length_size(n).
C7_WriteReadRoundTrip ==
    vl_phase = "read_back" =>
        /\ vl_value.status = "returned"
        /\ vl_value.value = length
        /\ vl_written = get_variable_length_size(length)
        /\ vl_value.offset - vl_start = get_variable_length_size(length)

\* C10: when the buffer holds n in the form whose length is
\* get_variable_length_size(n), read_variable_length returns n and advances
\* the offset by get_variable_length_size(n).
C10_DecoderAgreesWithSize ==
    vl_phase = "decoded" =>
        /\ vl_value.status = "returned"
        /\ vl_value.value = length
        /\ offset - vl_start = get_variable_length_size(length)

\* C10's case: 0xFFFE, whose three-byte form has 0xFF as its second byte,
\* decoded from a buffer that holds nothing after it.
C10_Witness ==
    /\ vl_phase = "decoded"
    /\ length = <<0, LimbBase - 2>>
    /\ vl_start = 1
    /\ Len(buffer) = 4
    /\ buffer[3] = U8Max
    /\ vl_value.value = length
    /\ offset = 4

(***************************************************************************)
(* SpecU16: a u16 written big-endian and read back                         *)
(***************************************************************************)

\* The values written: around the byte boundaries, and two with distinct bytes.
U16Values ==
    Around(0, VlSpan) \cup Around(U8Max, VlSpan) \cup Around(LimbBase - 1, VlSpan)
        \cup {4660, 65280}

\* What the buffer held before.
U16Buffers == {<<0, 0>>, <<U8Max, U8Max>>, <<0, U8Max>>, <<1, 2, 3>>}

InitU16 ==
    /\ u16_value \in U16Values
    /\ u16_buffer \in U16Buffers
    /\ u16_read = 0
    /\ u16_phase = "blank"
    /\ SeqIdle /\ Rc4Idle /\ VlIdle

\* write_u16_be(buffer, value)
WriteU16 ==
    /\ u16_phase = "blank"
    /\ u16_buffer' = write_u16_be(u16_buffer, u16_value)
    /\ u16_phase' = "written"
    /\ UNCHANGED <<u16_value, u16_read>>
    /\ UNCHANGED <<seq_vars, rc4_vars, vl_vars>>

\* read_u16_be(buffer)
ReadU16 ==
    /\ u16_phase = "written"
    /\ u16_read' = read_u16_be(u16_buffer)
    /\ u16_phase' = "read"
    /\ UNCHANGED <<u16_value, u16_buffer>>
    /\ UNCHANGED <<seq_vars, rc4_vars, vl_vars>>

NextU16 == WriteU16 \/ ReadU16

SpecU16 == InitU16 /\ [][NextU16]_vars

\* C8 as stated: write_u16_be(buf, v) puts v's high byte at offset 0 and its
\* low byte at offset 1, so read_u16_be(buf) is v whatever buf held before.
C8_WriteBothBytes ==
    u16_phase \in {"written", "read"} =>
        /\ u16_buffer[1] = u16_value \div (U8Max + 1)
        /\ u16_buffer[2] = u16_value % (U8Max + 1)
        /\ u16_phase = "read" => u16_read = u16_value

====
